---------------------------- MODULE Spec2Model ----------------------------
(***************************************************************************)
(* The CM19a X10 RF transceiver driver (CM19aDevice of cm19adriver.py, and *)
(* send and _decode of its earlier version CM19a_X10_USB_v0.2.py):         *)
(* the table codec (_encode, _decode), the poller thread (run, receive),   *)
(* and the foreground operations send and getReceiveQueue, which share the *)
(* device handle, the paused flag and the receive queue with the poller.   *)
(* Python strings are sequences of one-character strings; a Python list    *)
(* object is a cell of `heap`, so that two references to one list are told *)
(* from two lists.  A thread switch may fall between any two reads or      *)
(* writes of shared attributes, so each of them is a step of its own.      *)
(***************************************************************************)
EXTENDS Integers, Sequences, FiniteSets, TLC

(***************************************************************************)
(* Bounds of the model.                                                    *)
(***************************************************************************)
MaxPackets == 2
MaxPktLen == 2
MaxLines == 3

(***************************************************************************)
(* Class constants of CM19aDevice.                                         *)
(***************************************************************************)
PACKET_LENGTH == 8
ACK == 255

(***************************************************************************)
(* Strings.                                                                *)
(***************************************************************************)
Digits == <<"0", "1", "2", "3", "4", "5", "6", "7", "8", "9">>

RECURSIVE str(_)
str(n) == IF n < 10 THEN <<Digits[n + 1]>>
          ELSE str(n \div 10) \o <<Digits[(n % 10) + 1]>>

IsSpace(c) == c = " "

Lowercase == <<"a", "b", "c", "d", "e", "f", "g", "h", "i", "j", "k", "l", "m",
               "n", "o", "p", "q", "r", "s", "t", "u", "v", "w", "x", "y", "z">>
Uppercase == <<"A", "B", "C", "D", "E", "F", "G", "H", "I", "J", "K", "L", "M",
               "N", "O", "P", "Q", "R", "S", "T", "U", "V", "W", "X", "Y", "Z">>

\* str.upper()
upper(s) == [i \in 1..Len(s) |->
                IF \E j \in 1..26 : Lowercase[j] = s[i]
                THEN Uppercase[CHOOSE j \in 1..26 : Lowercase[j] = s[i]]
                ELSE s[i]]

RECURSIVE lstrip(_)
lstrip(s) == IF s # <<>> /\ IsSpace(Head(s)) THEN lstrip(Tail(s)) ELSE s

RECURSIVE rstrip(_)
rstrip(s) == IF s # <<>> /\ IsSpace(s[Len(s)])
             THEN rstrip(SubSeq(s, 1, Len(s) - 1)) ELSE s

strip(s) == rstrip(lstrip(s))

\* aline.replace(" ", "")
Unspaced(s) == SelectSeq(s, LAMBDA c : c # " ")

\* s.split(',', maxsplit); s.split(',') has no limit, which Len(s) stands for
RECURSIVE split(_, _)
split(s, maxsplit) ==
    LET commas == {i \in 1..Len(s) : s[i] = ","}
    IN IF maxsplit = 0 \/ commas = {}
       THEN <<s>>
       ELSE LET i == CHOOSE c \in commas : \A d \in commas : c <= d
            IN <<SubSeq(s, 1, i - 1)>> \o split(SubSeq(s, i + 1, Len(s)), maxsplit - 1)

HexDigits == <<"0", "1", "2", "3", "4", "5", "6", "7", "8", "9",
               "A", "B", "C", "D", "E", "F">>
IsHexDigit(c) == \E j \in 1..Len(HexDigits) : HexDigits[j] = c
RECURSIVE HexNumber(_)
HexNumber(digits) ==
    IF digits = <<>> THEN Cardinality({})
    ELSE HexNumber(SubSeq(digits, 1, Len(digits) - 1)) * Len(HexDigits)
         + (CHOOSE j \in 1..Len(HexDigits) : HexDigits[j] = digits[Len(digits)]) - 1

\* int() as it would be if it took a token it cannot read for zero.
int16_or_zero(token) == [ok |-> TRUE, value |-> Cardinality({})]

\* int(token, 16): an optional sign, an optional 0x, then one hex digit or more
\* in either case; anything else raises ValueError
int16(token) ==
    LET signed == token # <<>> /\ token[1] \in {"+", "-"}
        body == IF signed THEN Tail(token) ELSE token
        prefixed == Len(body) >= 2 /\ body[1] = "0" /\ body[2] \in {"x", "X"}
        digits == upper(IF prefixed THEN SubSeq(body, 3, Len(body)) ELSE body)
    IN IF digits = <<>> \/ \E i \in 1..Len(digits) : ~IsHexDigit(digits[i])
       THEN [ok |-> FALSE, value |-> Cardinality({})]
       ELSE [ok |-> TRUE,
             value |-> IF signed /\ token[1] = "-" THEN -HexNumber(digits)
                       ELSE HexNumber(digits)]

\* receive_string += str(receive_sequence[i]): the decimal renderings, run together
RECURSIVE Rendered(_)
Rendered(seq) == IF seq = <<>> THEN <<>> ELSE str(Head(seq)) \o Rendered(Tail(seq))

\* receive_string += str(receive_sequence[i]) + " "
RECURSIVE RenderedSpaced(_)
RenderedSpaced(seq) ==
    IF seq = <<>> THEN <<>> ELSE str(Head(seq)) \o <<" ">> \o RenderedSpaced(Tail(seq))

(***************************************************************************)
(* Protocol tables.  A dict is the sequence of its (key, byte list) items  *)
(* in iteration order; its keys are distinct.                              *)
(***************************************************************************)
Entry(k, s) == [cmd |-> k, seq |-> s]
Keys(table) == {table[i].cmd : i \in 1..Len(table)}
Lookup(table, k) == table[CHOOSE i \in 1..Len(table) : table[i].cmd = k].seq

A1ON == <<"A", "1", "O", "N">>
A1OFF == <<"A", "1", "O", "F", "F">>
ADIM == <<"A", "D", "I", "M">>
ABRIGHT == <<"A", "B", "R", "I", "G", "H", "T">>

SeqOn == <<32, 52, 203, 88, 167>>
SeqOff == <<32, 96, 159, 32, 223>>
SeqDim == <<32, 96, 159, 152, 103>>
Ack1 == <<ACK>>
AckFull == [i \in 1..PACKET_LENGTH |-> ACK]

\* The tables a protocol file can load, as [base, remote] pairs.
TablesUsual ==
    [base |-> <<Entry(A1ON, SeqOn), Entry(A1OFF, SeqOff)>>,
     remote |-> <<Entry(ADIM, SeqDim)>>]
TablesOverlap ==
    [base |-> <<Entry(A1ON, <<12, 3>>), Entry(A1OFF, SeqOff)>>,
     remote |-> <<Entry(ADIM, SeqDim), Entry(ABRIGHT, <<12, 3>>)>>]
TablesNoRemote ==
    [base |-> <<Entry(A1ON, SeqOn), Entry(A1OFF, <<12, 3>>)>>, remote |-> <<>>]
TablesNoBase ==
    [base |-> <<>>, remote |-> <<Entry(ADIM, <<12, 3>>)>>]
TablesAckEntry ==
    [base |-> <<Entry(A1ON, <<ACK>>)>>, remote |-> <<Entry(ADIM, SeqDim)>>]
TablesLetterUnit ==
    [base |-> <<Entry(A1ON, SeqOn), Entry(<<"A", "x", "O", "N">>, SeqOff)>>,
     remote |-> <<Entry(ADIM, SeqDim)>>]
TablesRemoteTwice ==
    [base |-> <<Entry(A1ON, <<12, 3>>)>>,
     remote |-> <<Entry(ADIM, <<1, 23>>), Entry(ABRIGHT, <<12, 3>>)>>]

\* _encode as it would be if it fell back on the remote table.
_encode_either(table, house_code, unit_number, on_off) ==
    LET key == upper(house_code) \o unit_number \o upper(on_off)
        SeqDimOf(k) == IF k = ADIM THEN SeqDim ELSE <<>>
    IN IF key \in Keys(table) THEN Lookup(table, key) ELSE SeqDimOf(key)

\* _encode: the base table's byte list for the key, or False (here the empty
\* list, which send's "if not command_sequence" treats alike)
_encode(table, house_code, unit_number, on_off) ==
    LET key == upper(house_code) \o unit_number \o upper(on_off)
    IN IF key \in Keys(table) THEN Lookup(table, key) ELSE <<>>

\* _encode of version 0.2, which upper-cases the device number too
_encode02(table, house_code, device_number, on_off) ==
    LET key == upper(house_code) \o upper(device_number) \o upper(on_off)
    IN IF key \in Keys(table) THEN Lookup(table, key) ELSE <<>>

\* for cmd, seq in table.iteritems(): if receive_string == protocol_string: ... break
RECURSIVE Scan(_, _)
Scan(table, receive_string) ==
    IF table = <<>> THEN <<>>
    ELSE IF Rendered(Head(table).seq) = receive_string THEN <<Head(table).cmd>>
    ELSE Scan(Tail(table), receive_string)

\* The second loop assigns return_value only on a match, so a base match stands
\* unless the remote table matches too.
RemoteOverBase(baseHit, remoteHit) == IF remoteHit # <<>> THEN remoteHit ELSE baseHit

\* _decode: the command name of a received byte list
_decode(base, remote, receive_sequence) ==
    IF base = <<>> \/ remote = <<>> THEN <<>>
    ELSE LET hit == RemoteOverBase(Scan(base, Rendered(receive_sequence)),
                                   Scan(remote, Rendered(receive_sequence)))
             return_value == IF hit = <<>> \/ hit[1] = <<>>
                             THEN RenderedSpaced(receive_sequence)
                             ELSE hit[1]
         IN strip(return_value)

\* _decode of version 0.2, which has the base table only
_decode02(base, receive_sequence) ==
    IF base = <<>> THEN <<>>
    ELSE LET hit == Scan(base, Rendered(receive_sequence))
             return_value == IF hit = <<>> \/ hit[1] = <<>>
                             THEN RenderedSpaced(receive_sequence)
                             ELSE hit[1]
         IN strip(return_value)

(***************************************************************************)
(* The session.                                                            *)
(***************************************************************************)
VARIABLES
    driver,             \* which version of the driver the session runs
    protocol,           \* self.protocol: the base table
    protocol_remote,    \* self.protocol_remote: the dim/bright table
    initialised,        \* self.initialised
    polling,            \* self.polling
    alive,              \* self.alive
    paused,             \* self.paused
    heap,               \* the list objects: heap[r] is the content of list r
    receivequeue,       \* self.receivequeue: a reference into heap
    receivequeuecount,  \* self.receivequeuecount
    inbound,            \* packets waiting on the inbound endpoint, oldest first
    arrived,            \* packets that have reached the inbound endpoint so far
    pc,                 \* where each thread is
    data,               \* receive(): what interruptRead returned, per thread
    result,             \* receive(): the queue item decoded from data, per thread
    ref,                \* receive(): the list loaded for self.receivequeue.append
    cnt,                \* receive(): the value loaded for receivequeuecount + 1
    command_sequence,   \* send(): the encoded key
    sresult,            \* send(): result of _write_bytes
    sret,               \* what the last send() returned
    slog,               \* the last send(): called?, encoded?, what interruptWrite did, events
    tmp,                \* getReceiveQueue(): the list held in tmp
    glog,               \* the last getReceiveQueue(), if no receive() ran during or since
    appended,           \* packets whose command receive() has appended to a list
    flushed,            \* packets read by send()'s flush receive()
    returned,           \* the packets of the items getReceiveQueue() has returned
    suppressed,         \* the threads whose receive() has ignored an acknowledgement
    decIn,              \* codec: the byte list last decoded
    decOut,             \* codec: what _decode returned for it
    encIn,              \* codec: the (house, unit, action) last encoded
    encOut,             \* codec: what _encode returned for it
    device,             \* self.device
    handle,             \* self.handle
    built,              \* how construction went
    fpc,                \* where the thread that runs finish() is
    flog,               \* the finish() calls so far
    caller,             \* what the caller of send() keeps of its calls
    foreground,         \* where each caller of getReceiveQueue() is, its tmp, what it got
    loading             \* _load_protocol: the file, the next line, the section, how it went

vars == <<driver, protocol, protocol_remote, initialised, polling, alive, paused, heap,
          receivequeue, receivequeuecount, inbound, arrived, pc, data, result, ref,
          cnt, command_sequence, sresult, sret, slog, tmp, glog, appended, flushed,
          returned, suppressed, decIn, decOut, encIn, encOut, device, handle,
          built, fpc, flog, caller, foreground, loading>>

tableVars == <<driver, protocol, protocol_remote, initialised, polling>>
codecVars == <<decIn, decOut, encIn, encOut>>
lifeVars == <<device, handle, built, fpc, flog>>
ghostVars == <<appended, flushed, returned, suppressed>>
queueVars == <<heap, receivequeue, receivequeuecount>>
recvVars == <<data, result, ref, cnt>>
sendVars == <<command_sequence, sresult, sret, slog>>

Receivers == {"poller", "sender"}
Threads == Receivers \cup {"drainer"}

\* Two more foreground threads, each of which calls getReceiveQueue().
Callers == {"first", "second"}

\* What a local holds before it is assigned.
NoRef == Cardinality({})
NoItem == [n |-> 0, bytes |-> <<>>, c |-> <<>>]

\* The positions of a thread inside receive(), from the call of interruptRead
\* to the store of receivequeuecount.
InReceive == {"read", "append", "cntstore"}
AtRest == \A t \in Receivers : pc[t] \notin InReceive

\* List objects.  A list is alive while self.receivequeue, the tmp of a running
\* getReceiveQueue() or the operand of a pending append refers to it; a list
\* nothing refers to is garbage and its cell is free for the next "[]".
Cells == 0..Cardinality(Threads)
HoldsTmp == {"clear", "reset", "unpause"}
RootsWith(queue, held, at, refs, fore) ==
    {queue} \cup (IF at["drainer"] \in {"reset", "unpause"} THEN {held} ELSE {})
            \cup {refs[t] : t \in {u \in Receivers : at[u] = "append"}}
            \cup {fore[c].tmp : c \in {d \in Callers : fore[d].pc \in HoldsTmp}}
RootsOf(queue, held, at, refs) == RootsWith(queue, held, at, refs, foreground)
Roots == RootsOf(receivequeue, tmp, pc, ref)
NewList == CHOOSE r \in Cells : r \notin Roots /\ \A q \in Cells \ Roots : r <= q
Collected(h, roots) == [r \in Cells |-> IF r \in roots THEN h[r] ELSE <<>>]

\* The packets the device delivers in the threaded model.
InboundPackets == {Ack1, AckFull, SeqOn}

\* The calls of send() a caller makes: a key the base table holds, one only the
\* remote table holds, and one neither holds.
Requests == {<<<<"a">>, <<"1">>, <<"o", "n">>>>,
             <<<<"A">>, <<>>, <<"D", "I", "M">>>>,
             <<<<"Z">>, <<"9", "9">>, <<"F", "O", "O">>>>}

\* The tables of the threaded model.
SessionTables == {TablesUsual}

NoSendLog == [called |-> FALSE, encoded |-> FALSE, wrote |-> "none", events |-> <<>>]
NoGetLog == [quiet |-> FALSE, pre |-> <<>>, ret |-> <<>>]
NoFinishLog == [finished |-> FALSE, again |-> FALSE, raised |-> FALSE, events |-> <<>>]
NoCalls == [request |-> <<<<>>, <<>>, <<>>>>, failed |-> FALSE]
NoCallers == [c \in Callers |-> [pc |-> "idle", tmp |-> NoRef, got |-> {}]]
NoFile == [file |-> <<>>, at |-> Cardinality({}), section |-> <<>>, state |-> "none"]

\* The state __init__ leaves when the device was found and opened and the
\* protocol file read: the thread is started iff polling was asked for.
InitSession ==
    /\ initialised = TRUE
    /\ polling \in BOOLEAN
    /\ alive = FALSE
    /\ paused = FALSE
    /\ heap = [r \in Cells |-> <<>>]
    /\ receivequeue = 0
    /\ receivequeuecount = 0
    /\ inbound = <<>>
    /\ arrived = 0
    /\ pc = [t \in Threads |-> IF t = "poller"
                                THEN (IF polling THEN "start" ELSE "unstarted")
                                ELSE "idle"]
    /\ data = [t \in Receivers |-> <<>>]
    /\ result = [t \in Receivers |-> NoItem]
    /\ ref = [t \in Receivers |-> NoRef]
    /\ cnt = [t \in Receivers |-> 0]
    /\ command_sequence = <<>>
    /\ sresult = FALSE
    /\ sret = FALSE
    /\ slog = NoSendLog
    /\ tmp = NoRef
    /\ glog = NoGetLog
    /\ appended = {}
    /\ flushed = {}
    /\ returned = {}
    /\ suppressed = {}
    /\ decIn = <<>>
    /\ decOut = <<>>
    /\ encIn = <<<<>>, <<>>, <<>>>>
    /\ encOut = <<>>
    /\ device = "found"
    /\ handle = "open"
    /\ built = "ok"
    /\ fpc = "idle"
    /\ flog = NoFinishLog
    /\ caller = NoCalls
    /\ foreground = NoCallers
    /\ loading = NoFile

Init ==
    /\ driver = "cm19adriver"
    /\ \E t \in SessionTables : protocol = t.base /\ protocol_remote = t.remote
    /\ InitSession

\* The same for version 0.2, which has no remote table; polling stands for its
\* startreceiving.
Init02 ==
    /\ driver = "CM19a_X10_USB_v0.2"
    /\ \E t \in SessionTables : protocol = t.base
    /\ protocol_remote = <<>>
    /\ InitSession

(***************************************************************************)
(* Construction.  What the USB library and the file system do decides how  *)
(* __init__ goes: no matching device on any bus; device.open() raises a    *)
(* USBError; a later call of _open_device raises one; the protocol file is *)
(* missing; all goes well.                                                 *)
(***************************************************************************)
BuildOutcomes == {"nodevice", "openraises", "claimraises", "nofile", "ok"}

\* _open_device as it would be if it set initialised once the device is open,
\* before the interface is claimed.
_open_device_early(outcome) ==
    [ok |-> outcome \notin {"openraises", "claimraises"},
     initialised |-> outcome # "openraises",
     handle |-> IF outcome = "openraises" THEN "None"
                ELSE IF outcome = "claimraises" THEN "unclaimed" ELSE "open"]

\* _open_device: its return value, self.initialised and self.handle
_open_device(outcome) ==
    [ok |-> outcome \notin {"openraises", "claimraises"},
     initialised |-> outcome \notin {"openraises", "claimraises"},
     handle |-> IF outcome = "openraises" THEN "None"
                ELSE IF outcome = "claimraises" THEN "unclaimed" ELSE "open"]

\* _load_protocol: the tables and self.initialised
_load_protocol(outcome, tables, opened) ==
    IF outcome = "nofile"
    THEN [protocol |-> <<>>, protocol_remote |-> <<>>, initialised |-> FALSE]
    ELSE [protocol |-> tables.base, protocol_remote |-> tables.remote,
          initialised |-> opened]

\* _initialise_remotes: the byte lists it hands to _write_bytes, in order
_initialise_remotes ==
    <<<<32, 52, 203, 88, 167>>,
      <<128, 1, 0, 32, 20>>,
      <<128, 1, 0, 0, 20, 36, 32, 32>>>>

\* __init__: the attributes it leaves, whether it has started the thread, and
\* the byte lists it has handed to interruptWrite
__init__(outcome, poll, tables) ==
    LET unbuilt == [initialised |-> FALSE, protocol |-> <<>>, protocol_remote |-> <<>>,
                    started |-> FALSE, remotes |-> <<>>]
    IN IF outcome = "nodevice"
       THEN unbuilt @@ [device |-> "None", handle |-> "unset"]
       ELSE LET opened == _open_device(outcome)
            IN IF ~opened.ok
               THEN [unbuilt EXCEPT !.initialised = opened.initialised]
                        @@ [device |-> "found", handle |-> opened.handle]
               ELSE LET loaded == _load_protocol(outcome, tables, opened.initialised)
                    IN [initialised |-> loaded.initialised,
                        protocol |-> loaded.protocol,
                        protocol_remote |-> loaded.protocol_remote,
                        started |-> poll,
                        remotes |-> _initialise_remotes,
                        device |-> "found",
                        handle |-> opened.handle]

\* The state __init__ leaves, however construction went.
InitLife ==
    /\ driver = "cm19adriver"
    /\ built \in BuildOutcomes
    /\ polling \in BOOLEAN
    /\ \E t \in SessionTables :
          LET self == __init__(built, polling, t)
          IN /\ initialised = self.initialised
             /\ protocol = self.protocol
             /\ protocol_remote = self.protocol_remote
             /\ device = self.device
             /\ handle = self.handle
             /\ pc = [th \in Threads |->
                        IF th = "poller"
                        THEN (IF self.started THEN "start" ELSE "unstarted")
                        ELSE "idle"]
    /\ alive = FALSE
    /\ paused = FALSE
    /\ heap = [r \in Cells |-> <<>>]
    /\ receivequeue = 0
    /\ receivequeuecount = 0
    /\ inbound = <<>>
    /\ arrived = 0
    /\ data = [th \in Receivers |-> <<>>]
    /\ result = [th \in Receivers |-> NoItem]
    /\ ref = [th \in Receivers |-> NoRef]
    /\ cnt = [th \in Receivers |-> 0]
    /\ command_sequence = <<>>
    /\ sresult = FALSE
    /\ sret = FALSE
    /\ slog = NoSendLog
    /\ tmp = NoRef
    /\ glog = NoGetLog
    /\ appended = {}
    /\ flushed = {}
    /\ returned = {}
    /\ suppressed = {}
    /\ decIn = <<>>
    /\ decOut = <<>>
    /\ encIn = <<<<>>, <<>>, <<>>>>
    /\ encOut = <<>>
    /\ fpc = "idle"
    /\ flog = NoFinishLog
    /\ caller = NoCalls
    /\ foreground = NoCallers
    /\ loading = NoFile

(***************************************************************************)
(* The protocol file and _load_protocol's loop over its lines.             *)
(***************************************************************************)
\* "[CM19A X10 CODES]"
CodesHeader == <<"[", "C", "M", "1", "9", "A", " ", "X", "1", "0", " ", "C", "O", "D", "E", "S", "]">>
\* "[X10 RF REMOTE DIM/BRIGHT CODES]"
RemoteHeader ==
    <<"[", "X", "1", "0", " ", "R", "F", " ", "R", "E", "M", "O", "T", "E", " ", "D", "I", "M", "/", "B", "R", "I", "G", "H", "T">> \o
    <<" ", "C", "O", "D", "E", "S", "]">>

\* The lines a protocol file is made of here: a blank line, a comment, the two
\* headers the loader knows, [OTHER], a header it does not know, data lines
\* with and without spaces, one with a token that is no number, and one that
\* lacks the byte list.
FileLines ==
    {<<" ", " ">>,
     <<"#", "a", ",", "1", ",", "o", "n", ",", "2", "0">>,
     CodesHeader,
     RemoteHeader,
     <<"[", "O", "T", "H", "E", "R", "]">>,
     <<"[", "N", "E", "W", "]">>,
     <<" ", "a", ",", " ", "1", ",", " ", "o", "n", ",", " ", "2", "0", ",", " ", "0", "F">>,
     <<"a", ",", ",", "d", "i", "m", ",", "0", "x", "1", "f">>,
     <<"a", ",", "1", ",", "o", "f", "f", ",", "2", "0", ",", "2", "z">>,
     <<"a", ",", "1", ",", "o", "n">>}

RECURSIVE FilesOfLen(_)
FilesOfLen(n) ==
    IF n = 0 THEN {<<>>}
    ELSE {Append(f, l) : f \in FilesOfLen(n - 1), l \in FileLines}
Files == UNION {FilesOfLen(n) : n \in 0..MaxLines}

\* _load_protocol as it would be if every section it has no use for counted as
\* the section of the base codes.
TableOfAnySection(section) == IF section = RemoteHeader THEN "protocol_remote" ELSE "protocol"

\* if section == "[CM19A X10 CODES]" ... elif section == "[X10 RF REMOTE
\* DIM/BRIGHT CODES]" ... elif section == "[OTHER]": pass
TableOfSection(section) ==
    IF section = CodesHeader THEN "protocol"
    ELSE IF section = RemoteHeader THEN "protocol_remote"
    ELSE "neither"

\* A data line of one of the two sections: the key and the byte list it gives,
\* or the IndexError of a missing field or the ValueError of int().
ParseLine(aline) ==
    LET fields == split(Unspaced(aline), 3)
        tokens == split(fields[4], Len(fields[4]))
        values == [i \in 1..Len(tokens) |-> int16(tokens[i])]
    IN IF Len(fields) < 4 \/ \E i \in 1..Len(tokens) : ~values[i].ok
       THEN [ok |-> FALSE, key |-> <<>>, seq |-> <<>>]
       ELSE [ok |-> TRUE,
             key |-> upper(fields[1]) \o fields[2] \o upper(fields[3]),
             seq |-> [i \in 1..Len(tokens) |-> values[i].value]]

\* table[key] = command_sequence
Store(table, key, seq) ==
    IF key \in Keys(table)
    THEN [i \in 1..Len(table) |-> IF table[i].cmd = key THEN Entry(key, seq) ELSE table[i]]
    ELSE Append(table, Entry(key, seq))

\* The tables and byte lists the codec is tried on.
CodecTables == {TablesUsual, TablesOverlap, TablesNoRemote, TablesNoBase,
                TablesAckEntry, TablesRemoteTwice, TablesLetterUnit}

\* The arguments _encode is tried on.
EncodeRequests ==
    ({<<"a">>, <<"A">>, <<"Z">>} \X {<<"1">>, <<"x">>, <<"X">>}
                                \X {<<"o", "n">>, <<"O", "N">>, <<"d", "i", "m">>})
        \cup Requests
ByteValues == {1, 3, 12, 23, ACK}
RECURSIVE BytesOfLen(_)
BytesOfLen(n) ==
    IF n = 0 THEN {<<>>}
    ELSE {Append(s, b) : s \in BytesOfLen(n - 1), b \in ByteValues}
CodecPackets == UNION {BytesOfLen(n) : n \in 1..MaxPktLen} \cup {AckFull, SeqOn, SeqDim}

\* Tables in which no byte list of the base table is in the remote table too.
RoundTripTables == {TablesUsual, TablesNoRemote, TablesLetterUnit}

InitRoundTrip ==
    /\ driver = "cm19adriver"
    /\ \E t \in RoundTripTables : protocol = t.base /\ protocol_remote = t.remote
    /\ InitSession

InitCodec ==
    /\ driver = "cm19adriver"
    /\ \E t \in CodecTables : protocol = t.base /\ protocol_remote = t.remote
    /\ InitSession

(***************************************************************************)
(* The codec on its own: _decode called on a byte list.                    *)
(***************************************************************************)
DecodeCall(receive_sequence) ==
    /\ decIn' = receive_sequence
    /\ decOut' = _decode(protocol, protocol_remote, receive_sequence)
    /\ UNCHANGED <<tableVars, lifeVars, queueVars, recvVars, sendVars, tmp, glog, alive,
                   paused, pc, inbound, arrived, ghostVars, encIn, encOut, caller, foreground, loading>>

\* _encode called on a (house, unit, action)
EncodeCall(house_code, unit_number, on_off) ==
    /\ encIn' = <<house_code, unit_number, on_off>>
    /\ encOut' = _encode(protocol, house_code, unit_number, on_off)
    /\ UNCHANGED <<tableVars, lifeVars, queueVars, recvVars, sendVars, tmp, glog, alive,
                   paused, pc, inbound, arrived, ghostVars, decIn, decOut, caller, foreground, loading>>

\* _decode called on what the last _encode returned
DecodeEncoded ==
    /\ encOut # <<>>
    /\ DecodeCall(encOut)

(***************************************************************************)
(* The device.                                                             *)
(***************************************************************************)
\* A packet reaches the inbound endpoint; n numbers the packets in their order
\* of arrival, which is the order interruptRead hands them out in.
Arrive(bytes) ==
    /\ arrived < MaxPackets
    /\ arrived' = arrived + 1
    /\ inbound' = Append(inbound, [n |-> arrived + 1, bytes |-> bytes])
    /\ UNCHANGED <<tableVars, lifeVars, codecVars, queueVars, recvVars, sendVars, tmp, glog,
                   alive, paused, pc, appended, flushed, returned, suppressed, caller, foreground, loading>>

(***************************************************************************)
(* receive(), run by the poller thread and by send()'s flush.  Its reads   *)
(* and writes of shared state are: interruptRead, the load of              *)
(* self.receivequeue, the append, the load of receivequeuecount and its    *)
(* store.  The load of the list follows the read in one step, and the load *)
(* of the count follows the append in one step: whatever another thread    *)
(* does in between commutes with one of the two, so no outcome is lost.    *)
(***************************************************************************)
\* Where a thread goes on when its receive() returns: the poller sleeps and
\* tests self.alive again, send() goes on to _write_bytes.
AfterReceive(t) == IF t = "poller" THEN "while" ELSE "write"

\* receive() as it would be without the test of self.initialised.
EnterReceiveUnchecked(t) == "read"

\* receive() called: "if not self.initialised: return", else into interruptRead.
EnterReceive(t) == IF initialised THEN "read" ELSE AfterReceive(t)

\* receive() as it would be if the sentinel were the rendering of a full packet
\* of ACK bytes.
IsAckFullPacket(command) == command = strip(RenderedSpaced(AckFull))

\* "if result == str(self.ACK): pass": the decoded command is not queued.
IsAck(command) == command = str(ACK)

Leave(t) ==
    /\ pc' = [pc EXCEPT ![t] = AfterReceive(t)]
    /\ data' = [data EXCEPT ![t] = <<>>]
    /\ result' = [result EXCEPT ![t] = NoItem]
    /\ ref' = [ref EXCEPT ![t] = NoRef]
    /\ cnt' = [cnt EXCEPT ![t] = 0]

\* receive() as it would be if what interruptRead raises were not caught: the
\* thread that called it ends.
ReadNothingUncaught(t) ==
    /\ pc[t] = "read"
    /\ pc' = [pc EXCEPT ![t] = IF t = "poller" THEN "done" ELSE "idle"]
    /\ glog' = NoGetLog
    /\ UNCHANGED <<tableVars, lifeVars, codecVars, queueVars, recvVars, sendVars, tmp,
                   alive, paused, inbound, arrived, ghostVars, caller, foreground, loading>>

\* interruptRead raises (timeout, nothing to read, USB error): data stays None.
ReadNothing(t) ==
    /\ pc[t] = "read"
    /\ Leave(t)
    /\ glog' = NoGetLog
    /\ UNCHANGED <<tableVars, lifeVars, codecVars, queueVars, sendVars, tmp, alive, paused,
                   inbound, arrived, appended, flushed, returned, suppressed, caller, foreground, loading>>

\* interruptRead returns the oldest waiting packet, which is decoded; an ACK
\* ends receive(); for any other command the list to append to is loaded.
ReadPacket(t) ==
    /\ pc[t] = "read"
    /\ handle = "open"
    /\ inbound # <<>>
    /\ inbound' = Tail(inbound)
    /\ flushed' = IF t = "sender" THEN flushed \cup {Head(inbound).n} ELSE flushed
    /\ glog' = NoGetLog
    /\ LET packet == Head(inbound)
           command == IF driver = "cm19adriver"
                      THEN _decode(protocol, protocol_remote, packet.bytes)
                      ELSE _decode02(protocol, packet.bytes)
       IN IF IsAck(command)
          THEN Leave(t) /\ suppressed' = suppressed \cup {t}
          ELSE /\ pc' = [pc EXCEPT ![t] = "append"]
               /\ UNCHANGED suppressed
               /\ data' = [data EXCEPT ![t] = packet.bytes]
               /\ result' = [result EXCEPT ![t] =
                                [n |-> packet.n, bytes |-> packet.bytes, c |-> command]]
               /\ ref' = [ref EXCEPT ![t] = receivequeue]
               /\ UNCHANGED cnt
    /\ UNCHANGED <<tableVars, lifeVars, codecVars, queueVars, sendVars, tmp, alive, paused,
                   arrived, appended, returned, caller, foreground, loading>>

\* self.receivequeue.append(result) on the loaded list, and the load of
\* self.receivequeuecount for the increment
AppendResult(t) ==
    /\ pc[t] = "append"
    /\ pc' = [pc EXCEPT ![t] = "cntstore"]
    /\ ref' = [ref EXCEPT ![t] = NoRef]
    /\ cnt' = [cnt EXCEPT ![t] = receivequeuecount]
    /\ heap' = Collected([heap EXCEPT ![ref[t]] = Append(@, result[t])],
                         RootsOf(receivequeue, tmp, pc', ref'))
    /\ appended' = appended \cup {result[t].n}
    /\ glog' = NoGetLog
    /\ UNCHANGED <<tableVars, lifeVars, codecVars, receivequeue, receivequeuecount, sendVars,
                   tmp, alive, paused, inbound, arrived, data, result, flushed,
                   returned, suppressed, caller, foreground, loading>>

\* receive() as it would be if it let the thread run on once it has queued a
\* command.
CountStoreResuming(t) ==
    /\ pc[t] = "cntstore"
    /\ receivequeuecount' = cnt[t] + 1
    /\ paused' = FALSE
    /\ Leave(t)
    /\ glog' = NoGetLog
    /\ UNCHANGED <<tableVars, lifeVars, codecVars, heap, receivequeue, sendVars, tmp, alive,
                   inbound, arrived, ghostVars, caller, foreground, loading>>

\* self.receivequeuecount = self.receivequeuecount + 1, the store; receive() returns
CountStore(t) ==
    /\ pc[t] = "cntstore"
    /\ receivequeuecount' = cnt[t] + 1
    /\ Leave(t)
    /\ glog' = NoGetLog
    /\ UNCHANGED <<tableVars, lifeVars, codecVars, heap, receivequeue, sendVars, tmp, alive,
                   paused, inbound, arrived, appended, flushed, returned, suppressed, caller, foreground, loading>>

(***************************************************************************)
(* run(): the poller thread.                                               *)
(***************************************************************************)
PollerStart ==
    /\ pc["poller"] = "start"
    /\ alive' = TRUE
    /\ pc' = [pc EXCEPT !["poller"] = "while"]
    /\ UNCHANGED <<tableVars, lifeVars, codecVars, queueVars, recvVars, sendVars, tmp, glog,
                   paused, inbound, arrived, appended, flushed, returned, suppressed, caller, foreground, loading>>

\* time.sleep(self.refresh) of the cycle before, then "while self.alive:"
PollerWhile ==
    /\ pc["poller"] = "while"
    /\ pc' = [pc EXCEPT !["poller"] = IF alive THEN "check" ELSE "done"]
    /\ UNCHANGED <<tableVars, lifeVars, codecVars, queueVars, recvVars, sendVars, tmp, glog,
                   alive, paused, inbound, arrived, appended, flushed, returned, suppressed, caller, foreground, loading>>

\* run() as it would be if it called receive() whatever self.paused is.
PollerCheckUnpaused ==
    /\ pc["poller"] = "check"
    /\ pc' = [pc EXCEPT !["poller"] = EnterReceive("poller")]
    /\ UNCHANGED <<tableVars, lifeVars, codecVars, queueVars, recvVars, sendVars, tmp, glog,
                   alive, paused, inbound, arrived, ghostVars, caller, foreground, loading>>

\* if self.paused: pass  else: self.receive()
PollerCheck ==
    /\ pc["poller"] = "check"
    /\ pc' = [pc EXCEPT !["poller"] = IF paused THEN "while" ELSE EnterReceive("poller")]
    /\ UNCHANGED <<tableVars, lifeVars, codecVars, queueVars, recvVars, sendVars, tmp, glog,
                   alive, paused, inbound, arrived, appended, flushed, returned, suppressed, caller, foreground, loading>>

(***************************************************************************)
(* send(), run by a foreground thread.                                     *)
(***************************************************************************)
\* What interruptWrite can do with a byte list: raise, or report a count.
WriteOutcomes(bytesequence) ==
    {[raised |-> TRUE, chars_written |-> 0]}
        \cup IF handle = "open"
             THEN {[raised |-> FALSE, chars_written |-> k] : k \in 0..Len(bytesequence)}
             ELSE {}

WroteAs(bytesequence, outcome) ==
    IF outcome.raised THEN "raise"
    ELSE IF outcome.chars_written = Len(bytesequence) THEN "full" ELSE "short"

\* _write_bytes as it would be without the test of chars_written.
_write_bytes_unchecked(bytesequence, outcome) ==
    IF Len(bytesequence) = 0 THEN FALSE ELSE ~outcome.raised

\* _write_bytes: its return value, given what interruptWrite did
_write_bytes(bytesequence, outcome) ==
    IF Len(bytesequence) = 0 THEN FALSE
    ELSE LET chars_written == IF outcome.raised THEN 0 ELSE outcome.chars_written
             returnval == ~outcome.raised
         IN IF chars_written # Len(bytesequence) THEN FALSE ELSE returnval

Logged(event) == [slog EXCEPT !.events = Append(@, event)]

\* send() returns False before it touches the flag or the device.
SendRefused ==
    /\ sret' = FALSE
    /\ slog' = [NoSendLog EXCEPT !.called = TRUE]
    /\ UNCHANGED <<paused, pc, command_sequence, sresult>>

\* send() as it would be if it paused the thread before it encoded the key.
SendCallPauseFirst(house_code, unit_number, function) ==
    /\ pc["sender"] = "idle"
    /\ paused' = IF initialised /\ polling THEN TRUE ELSE paused
    /\ LET encoded == _encode(protocol, house_code, unit_number, function)
       IN IF ~initialised \/ encoded = <<>>
          THEN /\ sret' = FALSE
               /\ slog' = [NoSendLog EXCEPT !.called = TRUE]
               /\ UNCHANGED <<pc, command_sequence, sresult>>
          ELSE /\ command_sequence' = encoded
               /\ slog' = [called |-> TRUE, encoded |-> TRUE, wrote |-> "none",
                           events |-> IF polling THEN <<"pause">> ELSE <<>>]
               /\ pc' = [pc EXCEPT !["sender"] = "sleep"]
               /\ UNCHANGED <<sresult, sret>>
    /\ UNCHANGED <<tableVars, lifeVars, codecVars, queueVars, recvVars, tmp, glog,
                   alive, inbound, arrived, ghostVars, foreground, loading>>

\* send() up to "self.paused = True": the initialised check, _encode, the flag
SendCall(house_code, unit_number, function) ==
    /\ pc["sender"] = "idle"
    /\ IF ~initialised
       THEN SendRefused
       ELSE LET encoded == _encode(protocol, house_code, unit_number, function)
            IN IF encoded = <<>>
               THEN SendRefused
               ELSE /\ command_sequence' = encoded
                    /\ paused' = IF polling THEN TRUE ELSE paused
                    /\ slog' = [called |-> TRUE, encoded |-> TRUE, wrote |-> "none",
                                events |-> IF polling THEN <<"pause">> ELSE <<>>]
                    /\ pc' = [pc EXCEPT !["sender"] = "sleep"]
                    /\ UNCHANGED <<sresult, sret>>
    /\ UNCHANGED <<tableVars, lifeVars, codecVars, queueVars, recvVars, tmp, glog, alive,
                   inbound, arrived, appended, flushed, returned, suppressed,
                   foreground, loading>>

\* send() as it would be if it wrote without the flush.
SendWithoutFlush ==
    /\ pc["sender"] = "sleep"
    /\ pc' = [pc EXCEPT !["sender"] = "write"]
    /\ UNCHANGED <<tableVars, lifeVars, codecVars, queueVars, recvVars, sendVars, tmp, glog,
                   alive, paused, inbound, arrived, ghostVars, caller, foreground, loading>>

\* time.sleep(int(self.refresh/2)), then the flush: self.receive()
SendFlush ==
    /\ pc["sender"] = "sleep"
    /\ pc' = [pc EXCEPT !["sender"] = EnterReceive("sender")]
    /\ slog' = Logged("flush")
    /\ UNCHANGED <<tableVars, lifeVars, codecVars, queueVars, recvVars, tmp, glog, alive,
                   paused, inbound, arrived, appended, flushed, returned,
                   command_sequence, sresult, sret, suppressed, caller, foreground, loading>>

\* send() as it would be if it returned False as soon as the write has failed.
SendWriteOrReturn(outcome) ==
    /\ pc["sender"] = "write"
    /\ slog' = [Logged("write") EXCEPT !.wrote = WroteAs(command_sequence, outcome)]
    /\ IF _write_bytes(command_sequence, outcome)
       THEN /\ sresult' = TRUE
            /\ pc' = [pc EXCEPT !["sender"] = "unpause"]
            /\ UNCHANGED <<sret, command_sequence>>
       ELSE /\ sret' = FALSE
            /\ command_sequence' = <<>>
            /\ pc' = [pc EXCEPT !["sender"] = "idle"]
            /\ UNCHANGED sresult
    /\ UNCHANGED <<tableVars, lifeVars, codecVars, queueVars, recvVars, tmp, glog,
                   alive, paused, inbound, arrived, ghostVars, caller, foreground, loading>>

\* result = self._write_bytes(command_sequence): interruptWrite returns or raises
SendWrite(outcome) ==
    /\ pc["sender"] = "write"
    /\ sresult' = _write_bytes(command_sequence, outcome)
    /\ slog' = [Logged("write") EXCEPT !.wrote = WroteAs(command_sequence, outcome)]
    /\ pc' = [pc EXCEPT !["sender"] = "unpause"]
    /\ UNCHANGED <<tableVars, lifeVars, codecVars, queueVars, recvVars, tmp, glog, alive,
                   paused, inbound, arrived, appended, flushed, returned,
                   command_sequence, sret, suppressed, caller, foreground, loading>>

\* send() as it would be if it tried the write again after a failure.
SendReturnOrRetry ==
    /\ pc["sender"] = "unpause"
    /\ IF sresult
       THEN /\ paused' = FALSE
            /\ sret' = sresult
            /\ slog' = Logged("resume")
            /\ command_sequence' = <<>>
            /\ sresult' = FALSE
            /\ pc' = [pc EXCEPT !["sender"] = "idle"]
       ELSE /\ pc' = [pc EXCEPT !["sender"] = "write"]
            /\ UNCHANGED <<paused, sret, slog, command_sequence, sresult>>
    /\ UNCHANGED <<tableVars, lifeVars, codecVars, queueVars, recvVars, tmp, glog,
                   alive, inbound, arrived, ghostVars, caller, foreground, loading>>

\* self.paused = False; return result
SendReturn ==
    /\ pc["sender"] = "unpause"
    /\ paused' = FALSE
    /\ sret' = sresult
    /\ slog' = Logged("resume")
    /\ command_sequence' = <<>>
    /\ sresult' = FALSE
    /\ pc' = [pc EXCEPT !["sender"] = "idle"]
    /\ UNCHANGED <<tableVars, lifeVars, codecVars, queueVars, recvVars, tmp, glog, alive,
                   inbound, arrived, appended, flushed, returned, suppressed, caller, foreground, loading>>

(***************************************************************************)
(* send() of version 0.2.                                                  *)
(***************************************************************************)
\* send() up to "self.paused = True", which version 0.2 sets whether or not the
\* thread runs
Send02Call(house_code, device_number, function) ==
    /\ pc["sender"] = "idle"
    /\ IF ~initialised
       THEN SendRefused
       ELSE LET encoded == _encode02(protocol, house_code, device_number, function)
            IN IF encoded = <<>>
               THEN SendRefused
               ELSE /\ command_sequence' = encoded
                    /\ paused' = TRUE
                    /\ slog' = [called |-> TRUE, encoded |-> TRUE, wrote |-> "none",
                                events |-> <<"pause">>]
                    /\ pc' = [pc EXCEPT !["sender"] = "sleep"]
                    /\ UNCHANGED <<sresult, sret>>
    /\ UNCHANGED <<tableVars, lifeVars, codecVars, queueVars, recvVars, tmp, glog, alive,
                   inbound, arrived, ghostVars, foreground, loading>>

\* time.sleep(self.refresh), then the flush: self.receive()
Send02Flush ==
    /\ pc["sender"] = "sleep"
    /\ pc' = [pc EXCEPT !["sender"] = EnterReceive("sender")]
    /\ slog' = Logged("flush")
    /\ UNCHANGED <<tableVars, lifeVars, codecVars, queueVars, recvVars, tmp, glog, alive,
                   paused, inbound, arrived, ghostVars,
                   command_sequence, sresult, sret, caller, foreground, loading>>

\* interruptWrite returns or raises; "if chars_written != len(command_sequence):
\* return False", which leaves send() with paused as it is
Send02Write(outcome) ==
    /\ pc["sender"] = "write"
    /\ slog' = [Logged("write") EXCEPT !.wrote = WroteAs(command_sequence, outcome)]
    /\ LET chars_written == IF outcome.raised THEN 0 ELSE outcome.chars_written
       IN IF chars_written # Len(command_sequence)
          THEN /\ sret' = FALSE
               /\ command_sequence' = <<>>
               /\ pc' = [pc EXCEPT !["sender"] = "idle"]
               /\ UNCHANGED sresult
          ELSE /\ sresult' = TRUE
               /\ pc' = [pc EXCEPT !["sender"] = "unpause"]
               /\ UNCHANGED <<sret, command_sequence>>
    /\ UNCHANGED <<tableVars, lifeVars, codecVars, queueVars, recvVars, tmp, glog, alive,
                   paused, inbound, arrived, ghostVars, caller, foreground, loading>>

\* self.paused = False; return True
Send02Return ==
    /\ pc["sender"] = "unpause"
    /\ paused' = FALSE
    /\ sret' = TRUE
    /\ slog' = Logged("resume")
    /\ command_sequence' = <<>>
    /\ sresult' = FALSE
    /\ pc' = [pc EXCEPT !["sender"] = "idle"]
    /\ UNCHANGED <<tableVars, lifeVars, codecVars, queueVars, recvVars, tmp, glog, alive,
                   inbound, arrived, ghostVars, caller, foreground, loading>>

(***************************************************************************)
(* getReceiveQueue(), run by a foreground thread.  The test of the count,  *)
(* "self.paused = True", "tmp = self.receivequeue" and                     *)
(* "self.receivequeue = []" are one step: a step of another thread that    *)
(* falls between two of them commutes with the ones before it or with the  *)
(* ones after it.  The reset of the count and the return are steps of      *)
(* their own.                                                              *)
(***************************************************************************)
StillQuiet == IF glog.quiet /\ AtRest THEN glog ELSE NoGetLog

\* if self.receivequeuecount > 0: self.paused = True; tmp = self.receivequeue;
\* self.receivequeue = []     else: return []
GetSwap ==
    /\ pc["drainer"] = "idle"
    /\ glog' = IF AtRest
               THEN [quiet |-> TRUE, pre |-> heap[receivequeue], ret |-> <<>>]
               ELSE NoGetLog
    /\ IF receivequeuecount > 0
       THEN /\ paused' = TRUE
            /\ tmp' = receivequeue
            /\ receivequeue' = NewList
            /\ pc' = [pc EXCEPT !["drainer"] = "reset"]
       ELSE UNCHANGED <<paused, tmp, receivequeue, pc>>
    /\ UNCHANGED <<tableVars, lifeVars, codecVars, heap, receivequeuecount, recvVars, sendVars,
                   alive, inbound, arrived, appended, flushed, returned, suppressed, caller, foreground, loading>>

\* self.receivequeuecount = 0
GetReset ==
    /\ pc["drainer"] = "reset"
    /\ receivequeuecount' = 0
    /\ glog' = StillQuiet
    /\ pc' = [pc EXCEPT !["drainer"] = "unpause"]
    /\ UNCHANGED <<tableVars, lifeVars, codecVars, heap, receivequeue, recvVars, sendVars, tmp,
                   alive, paused, inbound, arrived, appended, flushed, returned, suppressed, caller, foreground, loading>>

\* self.paused = False; return tmp: the caller gets the list as it is now
GetReturn ==
    /\ pc["drainer"] = "unpause"
    /\ paused' = FALSE
    /\ returned' = returned \cup {heap[tmp][i].n : i \in 1..Len(heap[tmp])}
    /\ glog' = IF glog.quiet /\ AtRest THEN [glog EXCEPT !.ret = heap[tmp]]
               ELSE NoGetLog
    /\ tmp' = NoRef
    /\ pc' = [pc EXCEPT !["drainer"] = "idle"]
    /\ heap' = Collected(heap, RootsOf(receivequeue, tmp', pc', ref))
    /\ UNCHANGED <<tableVars, lifeVars, codecVars, receivequeue, receivequeuecount, recvVars,
                   sendVars, alive, inbound, arrived, appended, flushed, suppressed, caller, foreground, loading>>

(***************************************************************************)
(* getReceiveQueue() called by two foreground threads at once: here        *)
(* "tmp = self.receivequeue" and "self.receivequeue = []" are steps of     *)
(* their own, since the other caller can run between them.  The test of    *)
(* the count and "self.paused = True" stay one step: nothing a caller does *)
(* reads paused, and the thread that reads it writes neither.              *)
(***************************************************************************)
\* if self.receivequeuecount > 0: self.paused = True    else: return []
CallerTest(c) ==
    /\ foreground[c].pc = "idle"
    /\ IF receivequeuecount > 0
       THEN /\ paused' = TRUE
            /\ foreground' = [foreground EXCEPT ![c].pc = "load"]
       ELSE UNCHANGED <<paused, foreground>>
    /\ glog' = NoGetLog
    /\ UNCHANGED <<tableVars, lifeVars, codecVars, queueVars, recvVars, sendVars, tmp,
                   alive, pc, inbound, arrived, ghostVars, caller, loading>>

\* tmp = self.receivequeue
CallerLoad(c) ==
    /\ foreground[c].pc = "load"
    /\ foreground' = [foreground EXCEPT ![c].pc = "clear", ![c].tmp = receivequeue]
    /\ UNCHANGED <<tableVars, lifeVars, codecVars, queueVars, recvVars, sendVars, tmp,
                   glog, alive, paused, pc, inbound, arrived, ghostVars, caller, loading>>

\* self.receivequeue = []
CallerClear(c) ==
    /\ foreground[c].pc = "clear"
    /\ foreground' = [foreground EXCEPT ![c].pc = "reset"]
    /\ receivequeue' = NewList
    /\ heap' = Collected(heap, RootsWith(receivequeue', tmp, pc, ref, foreground'))
    /\ UNCHANGED <<tableVars, lifeVars, codecVars, receivequeuecount, recvVars, sendVars,
                   tmp, glog, alive, paused, pc, inbound, arrived, ghostVars, caller, loading>>

\* self.receivequeuecount = 0
CallerReset(c) ==
    /\ foreground[c].pc = "reset"
    /\ foreground' = [foreground EXCEPT ![c].pc = "unpause"]
    /\ receivequeuecount' = 0
    /\ UNCHANGED <<tableVars, lifeVars, codecVars, heap, receivequeue, recvVars, sendVars,
                   tmp, glog, alive, paused, pc, inbound, arrived, ghostVars, caller, loading>>

\* self.paused = False; return tmp: the caller gets the list as it is now
CallerReturn(c) ==
    /\ foreground[c].pc = "unpause"
    /\ paused' = FALSE
    /\ LET list == heap[foreground[c].tmp]
       IN /\ foreground' = [foreground EXCEPT
                               ![c].pc = "idle",
                               ![c].tmp = NoRef,
                               ![c].got = @ \cup {list[i].n : i \in 1..Len(list)}]
          /\ returned' = returned \cup {list[i].n : i \in 1..Len(list)}
    /\ heap' = Collected(heap, RootsWith(receivequeue, tmp, pc, ref, foreground'))
    /\ UNCHANGED <<tableVars, lifeVars, codecVars, receivequeue, receivequeuecount,
                   recvVars, sendVars, tmp, glog, alive, pc, inbound, arrived,
                   appended, flushed, suppressed, caller, loading>>

(***************************************************************************)
(* finish(), run by a foreground thread.                                   *)
(***************************************************************************)
sessionVars == <<driver, protocol, protocol_remote, initialised, polling, built>>

\* self.alive = False
FinishCall ==
    /\ fpc = "idle"
    /\ alive' = FALSE
    /\ fpc' = "paused"
    /\ flog' = [finished |-> FALSE, again |-> flog.finished \/ flog.again,
                raised |-> FALSE, events |-> <<"alive">>]
    /\ UNCHANGED <<sessionVars, device, handle, codecVars, queueVars, recvVars,
                   sendVars, tmp, glog, paused, pc, inbound, arrived, ghostVars,
                   caller, foreground, loading>>

\* self.paused = True
FinishPause ==
    /\ fpc = "paused"
    /\ paused' = TRUE
    /\ fpc' = "release"
    /\ flog' = [flog EXCEPT !.events = Append(@, "paused")]
    /\ UNCHANGED <<sessionVars, device, handle, codecVars, queueVars, recvVars,
                   sendVars, tmp, glog, alive, pc, inbound, arrived, ghostVars,
                   caller, foreground, loading>>

\* finish() as it would be without the try around releaseInterface.
FinishReleaseUncaught(raises) ==
    /\ fpc = "release"
    /\ handle \in {"unset", "None"} => raises
    /\ handle' = IF raises THEN handle ELSE "released"
    /\ fpc' = IF raises THEN "idle" ELSE "clear"
    /\ flog' = [flog EXCEPT !.events = Append(@, "release"), !.raised = raises,
                            !.finished = raises]
    /\ UNCHANGED <<sessionVars, device, codecVars, queueVars, recvVars,
                   sendVars, tmp, glog, alive, paused, pc, inbound, arrived,
                   ghostVars, caller, foreground, loading>>

\* self.handle.releaseInterface() in its try: it releases the interface, or it
\* raises (always so when self.handle is None or was never set), which the
\* except clause reports
FinishRelease(raises) ==
    /\ fpc = "release"
    /\ handle \in {"unset", "None"} => raises
    /\ handle' = IF raises THEN handle ELSE "released"
    /\ fpc' = "clear"
    /\ flog' = [flog EXCEPT !.events = Append(@, "release"), !.raised = raises]
    /\ UNCHANGED <<sessionVars, device, codecVars, queueVars, recvVars,
                   sendVars, tmp, glog, alive, paused, pc, inbound, arrived,
                   ghostVars, caller, foreground, loading>>

\* finish() as it would be if it dropped the protocol tables too.
FinishClearTables ==
    /\ fpc = "clear"
    /\ handle' = "None"
    /\ device' = "None"
    /\ protocol' = <<>>
    /\ protocol_remote' = <<>>
    /\ fpc' = "idle"
    /\ flog' = [flog EXCEPT !.events = Append(@, "clear"), !.finished = TRUE]
    /\ UNCHANGED <<driver, initialised, polling, built, codecVars, queueVars, recvVars,
                   sendVars, tmp, glog, alive, paused, pc, inbound, arrived,
                   ghostVars, caller, foreground, loading>>

\* self.handle, self.device = None, None; finish() returns
FinishClear ==
    /\ fpc = "clear"
    /\ handle' = "None"
    /\ device' = "None"
    /\ fpc' = "idle"
    /\ flog' = [flog EXCEPT !.events = Append(@, "clear"), !.finished = TRUE]
    /\ UNCHANGED <<sessionVars, codecVars, queueVars, recvVars,
                   sendVars, tmp, glog, alive, paused, pc, inbound, arrived,
                   ghostVars, caller, foreground, loading>>

(***************************************************************************)
(* The driver of cm19adriver.py.                                           *)
(***************************************************************************)
Receive ==
    \E t \in Receivers :
        \/ ReadNothing(t)
        \/ ReadPacket(t)
        \/ AppendResult(t)
        \/ CountStore(t)

Poller == PollerStart \/ PollerWhile \/ PollerCheck

GetReceiveQueue == GetSwap \/ GetReset \/ GetReturn

Send ==
    \/ \E r \in Requests : SendCall(r[1], r[2], r[3]) /\ UNCHANGED caller
    \/ SendFlush
    \/ \E o \in WriteOutcomes(command_sequence) : SendWrite(o)
    \/ SendReturn

Device == \E bytes \in InboundPackets : Arrive(bytes)

Next == Device \/ Receive \/ Poller \/ GetReceiveQueue \/ Send

Spec == Init /\ [][Next]_vars

(***************************************************************************)
(* The life of a session of cm19adriver.py, from any way construction can  *)
(* go to finish(): the poller thread, a caller of send() that keeps what   *)
(* it asked for and whether a send of its has failed, and finish().        *)
(***************************************************************************)
Failed == slog.wrote \in {"raise", "short"}

SendByCaller ==
    \/ \E r \in Requests :
          /\ SendCall(r[1], r[2], r[3])
          /\ caller' = [request |-> r, failed |-> caller.failed \/ Failed]
    \/ SendFlush
    \/ \E o \in WriteOutcomes(command_sequence) : SendWrite(o)
    \/ SendReturn

Finish ==
    \/ FinishCall
    \/ FinishPause
    \/ \E raises \in BOOLEAN : FinishRelease(raises)
    \/ FinishClear

\* The packets a remote control sends while the session lives.
LifePackets == {SeqOn}
Remote == \E bytes \in LifePackets : Arrive(bytes)

NextLife == Remote \/ Receive \/ Poller \/ SendByCaller \/ Finish

SpecLife == InitLife /\ [][NextLife]_vars

\* The same with a caller of getReceiveQueue() as well: every operation of a
\* session.
NextSession == Remote \/ Receive \/ Poller \/ GetReceiveQueue \/ SendByCaller \/ Finish

SpecSession == InitLife /\ [][NextSession]_vars

\* The thread scheduler lets a started thread run on.
PollerThread ==
    \/ Poller
    \/ ReadNothing("poller") \/ ReadPacket("poller")
    \/ AppendResult("poller") \/ CountStore("poller")

SpecLifeFair == SpecLife /\ WF_vars(PollerThread)

(***************************************************************************)
(* Two callers of getReceiveQueue() at once, as two requests to the HTTP   *)
(* server would be if it served them on threads of their own; the poller   *)
(* thread fills the queue.                                                 *)
(***************************************************************************)
InitCallers ==
    /\ Init
    /\ polling

CallerGetReceiveQueue(c) ==
    \/ CallerTest(c)
    \/ CallerLoad(c)
    \/ CallerClear(c)
    \/ CallerReset(c)
    \/ CallerReturn(c)

NextCallers ==
    \/ Remote
    \/ PollerThread
    \/ \E c \in Callers : CallerGetReceiveQueue(c)

SpecCallers == InitCallers /\ [][NextCallers]_vars

(***************************************************************************)
(* The driver of cm19adriver.py on a protocol file whose section of remote *)
(* codes holds no line.                                                    *)
(***************************************************************************)
InitNoRemote ==
    /\ driver = "cm19adriver"
    /\ protocol = TablesNoRemote.base
    /\ protocol_remote = TablesNoRemote.remote
    /\ InitSession

SpecNoRemote == InitNoRemote /\ [][Next]_vars

(***************************************************************************)
(* __init__ from _load_protocol on, when the device was found and opened.  *)
(***************************************************************************)
usedVars == <<codecVars, queueVars, recvVars, sendVars, tmp, glog, alive, paused,
              inbound, arrived, ghostVars, caller, foreground>>

\* One turn of "for aline in f.readlines()".  An exception leaves _load_protocol
\* and __init__, so that the caller gets no session.
LoadLine ==
    /\ loading.state = "reading"
    /\ loading.at <= Len(loading.file)
    /\ LET aline == strip(loading.file[loading.at])
           next == [loading EXCEPT !.at = @ + 1]
       IN IF aline = <<>> \/ aline[1] = "#"
          THEN /\ loading' = next
               /\ UNCHANGED <<protocol, protocol_remote, built>>
          ELSE IF aline[1] = "["
          THEN /\ loading' = [next EXCEPT !.section = aline]
               /\ UNCHANGED <<protocol, protocol_remote, built>>
          ELSE IF TableOfSection(loading.section) = "neither"
          THEN /\ loading' = next
               /\ UNCHANGED <<protocol, protocol_remote, built>>
          ELSE LET parsed == ParseLine(aline)
               IN IF ~parsed.ok
                  THEN /\ loading' = [loading EXCEPT !.state = "raised"]
                       /\ built' = "raised"
                       /\ UNCHANGED <<protocol, protocol_remote>>
                  ELSE /\ loading' = next
                       /\ UNCHANGED built
                       /\ IF TableOfSection(loading.section) = "protocol"
                          THEN /\ protocol' = Store(protocol, parsed.key, parsed.seq)
                               /\ UNCHANGED protocol_remote
                          ELSE /\ protocol_remote' =
                                      Store(protocol_remote, parsed.key, parsed.seq)
                               /\ UNCHANGED protocol
    /\ UNCHANGED <<driver, initialised, polling, device, handle, fpc, flog, pc, usedVars>>

\* f.close(); _load_protocol returns and __init__ runs to its end (polling is
\* off here): the caller has its session.
LoadClose ==
    /\ loading.state = "reading"
    /\ loading.at > Len(loading.file)
    /\ loading' = [loading EXCEPT !.state = "closed"]
    /\ built' = "ok"
    /\ UNCHANGED <<tableVars, device, handle, fpc, flog, pc, usedVars>>

\* CM19aDevice(REFRESH, log, polling = False) at the point where it has opened
\* the device and found the protocol file.
InitLoad ==
    /\ driver = "cm19adriver"
    /\ built = "loading"
    /\ \E f \in Files :
          loading = [file |-> f, at |-> 1, section |-> <<>>, state |-> "reading"]
    /\ protocol = <<>>
    /\ protocol_remote = <<>>
    /\ initialised = _open_device("ok").initialised
    /\ handle = _open_device("ok").handle
    /\ device = "found"
    /\ polling = FALSE
    /\ alive = FALSE
    /\ paused = FALSE
    /\ heap = [r \in Cells |-> <<>>]
    /\ receivequeue = 0
    /\ receivequeuecount = 0
    /\ inbound = <<>>
    /\ arrived = 0
    /\ pc = [th \in Threads |-> IF th = "poller" THEN "unstarted" ELSE "idle"]
    /\ data = [th \in Receivers |-> <<>>]
    /\ result = [th \in Receivers |-> NoItem]
    /\ ref = [th \in Receivers |-> NoRef]
    /\ cnt = [th \in Receivers |-> 0]
    /\ command_sequence = <<>>
    /\ sresult = FALSE
    /\ sret = FALSE
    /\ slog = NoSendLog
    /\ tmp = NoRef
    /\ glog = NoGetLog
    /\ appended = {}
    /\ flushed = {}
    /\ returned = {}
    /\ suppressed = {}
    /\ decIn = <<>>
    /\ decOut = <<>>
    /\ encIn = <<<<>>, <<>>, <<>>>>
    /\ encOut = <<>>
    /\ fpc = "idle"
    /\ flog = NoFinishLog
    /\ caller = NoCalls
    /\ foreground = NoCallers

\* What the caller does with the session once it has it.
UseSession ==
    /\ built = "ok"
    /\ (Remote \/ Receive \/ SendByCaller)

NextLoad == LoadLine \/ LoadClose \/ UseSession

SpecLoad == InitLoad /\ [][NextLoad]_vars

(***************************************************************************)
(* The driver of CM19a_X10_USB_v0.2.py: the same thread, receive() and     *)
(* getReceiveQueue(), with its own send().                                 *)
(***************************************************************************)
Send02 ==
    \/ \E r \in Requests : Send02Call(r[1], r[2], r[3]) /\ UNCHANGED caller
    \/ Send02Flush
    \/ \E o \in WriteOutcomes(command_sequence) : Send02Write(o)
    \/ Send02Return

Next02 == Device \/ Receive \/ Poller \/ GetReceiveQueue \/ Send02

Spec02 == Init02 /\ [][Next02]_vars

(***************************************************************************)
(* The codec.                                                              *)
(***************************************************************************)
NextCodec ==
    \/ \E bytes \in CodecPackets : DecodeCall(bytes)
    \/ \E r \in EncodeRequests : EncodeCall(r[1], r[2], r[3])
    \/ DecodeEncoded

SpecCodec == InitCodec /\ [][NextCodec]_vars

\* _encode and _decode of its result, on tables that leave the remote table's
\* precedence out of play.
NextRoundTrip ==
    \/ \E r \in EncodeRequests : EncodeCall(r[1], r[2], r[3])
    \/ DecodeEncoded

SpecRoundTrip == InitRoundTrip /\ [][NextRoundTrip]_vars

(***************************************************************************)
(* Properties of send().                                                   *)
(***************************************************************************)
\* C1: a finished send() has returned True exactly when the key encoded,
\* interruptWrite raised nothing and reported as many bytes written as the
\* encoded sequence has; after an encoding failure, a raised transport error
\* or a short write it has returned False (send() has no raising exit).
SendTrueIffFullWrite ==
    (pc["sender"] = "idle" /\ slog.called)
        => (sret = (slog.encoded /\ slog.wrote = "full"))

SendReturnedTrue ==
    /\ pc["sender"] = "idle"
    /\ slog.called /\ slog.encoded /\ slog.wrote = "full"
    /\ sret = TRUE

\* C4: with polling on, the poller is never inside interruptRead while the
\* sending thread is inside its flush interruptRead or its interruptWrite.
SendExcludesPollerRead ==
    polling => ~(pc["poller"] = "read" /\ pc["sender"] \in {"read", "write"})

\* C6: with polling on, a finished send() whose key encoded has set paused,
\* called the flush receive() once, called interruptWrite once and cleared
\* paused, in this order; and while it runs it has done the steps before the
\* point it is at, in this order.
SendStepsInOrder ==
    (polling /\ slog.encoded) =>
        /\ pc["sender"] = "idle" => slog.events = <<"pause", "flush", "write", "resume">>
        /\ pc["sender"] = "sleep" => slog.events = <<"pause">>
        /\ pc["sender"] \in InReceive \cup {"write"} => slog.events = <<"pause", "flush">>
        /\ pc["sender"] = "unpause" => slog.events = <<"pause", "flush", "write">>

SendFinishedWithPolling ==
    /\ polling
    /\ pc["sender"] = "idle"
    /\ slog.encoded
    /\ Len(slog.events) = 4
    /\ ~paused

(***************************************************************************)
(* Properties of the receive queue.                                        *)
(***************************************************************************)
Items(list) == {list[i].n : i \in 1..Len(list)}
Draining == pc["drainer"] \in {"reset", "unpause"}

\* C2: a getReceiveQueue() that ran while no receive() was in progress has
\* returned exactly the commands the queue held, in their order, and left the
\* queue empty and the count 0 (so that the next call returns []).
DrainReturnsWholeQueue ==
    (pc["drainer"] = "idle" /\ glog.quiet) =>
        /\ glog.ret = glog.pre
        /\ heap[receivequeue] = <<>>
        /\ receivequeuecount = 0

\* C3: while only the poller and getReceiveQueue() run (no send() was called),
\* every command the poller has appended is in a list getReceiveQueue() has
\* returned or is about to return, or else in receivequeue with a count above 0
\* once the drain and the poll cycle are over; never in both, never in neither.
NoCommandLostOrDuplicated ==
    ~slog.called =>
        \A n \in appended :
            LET inReturned == n \in returned
                inQueue == n \in Items(heap[receivequeue])
                inTmp == Draining /\ n \in Items(heap[tmp])
            IN /\ inReturned \/ inQueue \/ inTmp
               /\ ~(inReturned /\ inQueue)
               /\ (inQueue /\ ~Draining /\ AtRest) => receivequeuecount > 0

\* C7: a packet send()'s flush has read and appended is in a list
\* getReceiveQueue() has returned or is about to return, or in receivequeue
\* for a later call.
FlushedCommandIsKept ==
    \A n \in flushed \cap appended :
        \/ n \in returned
        \/ n \in Items(heap[receivequeue])
        \/ Draining /\ n \in Items(heap[tmp])

IsAckPacket(item) == item.bytes = Ack1
HeldItems == UNION {{heap[r][i] : i \in 1..Len(heap[r])} : r \in Cells}
    \cup {result[t] : t \in {u \in Receivers : pc[u] = "append"}}

RendersAsAck(table) == \E i \in 1..Len(table) : Rendered(table[i].seq) = str(ACK)

\* C8 as amended: when both tables have entries and none of them renders as
\* str(ACK), the packet of the one byte 0xFF decodes to the sentinel str(ACK),
\* and no receive(), the poller's or the flush's, appends it.
AckByteIsNeverQueued ==
    (/\ protocol # <<>> /\ protocol_remote # <<>>
     /\ ~RendersAsAck(protocol) /\ ~RendersAsAck(protocol_remote))
        => /\ IsAck(_decode(protocol, protocol_remote, Ack1))
           /\ \A item \in HeldItems : ~IsAckPacket(item)

AckByteSuppressedByBoth ==
    /\ suppressed = Receivers
    /\ AtRest

\* C8 as claimed: the packet of PACKET_LENGTH bytes 0xFF is taken for the
\* sentinel, so that no receive() appends it.
AckPacketIsNeverQueued ==
    \A item \in HeldItems : item.bytes # AckFull

\* C5: a finished send() that has set paused to True has set it back to False
\* as its last step, whatever interruptWrite did.
SendResumesBeforeReturn ==
    (pc["sender"] = "idle" /\ slog.events # <<>> /\ slog.events[1] = "pause")
        => slog.events[Len(slog.events)] = "resume"

(***************************************************************************)
(* Properties of _decode.                                                  *)
(***************************************************************************)
MatchesIn(table, bytes) == {table[i].cmd : i \in {j \in 1..Len(table) : table[j].seq = bytes}}

\* C9: when the decoded byte list is the byte list of an entry of the base
\* table and of an entry of the remote table, _decode has returned the name of
\* that entry of the remote table.
RemoteNameWins ==
    (MatchesIn(protocol, decIn) # {} /\ MatchesIn(protocol_remote, decIn) # {})
        => decOut \in MatchesIn(protocol_remote, decIn)

\* The decimal renderings of the bytes with one space between two of them.
RECURSIVE SpaceSeparated(_)
SpaceSeparated(seq) ==
    IF seq = <<>> THEN <<>>
    ELSE IF Len(seq) = 1 THEN str(seq[1])
    ELSE str(Head(seq)) \o <<" ">> \o SpaceSeparated(Tail(seq))

\* C10: whatever the tables hold, an empty table included, _decode of a byte
\* list that is no entry's byte list has returned the space-separated decimal
\* rendering of the bytes.
UnknownBytesAreRendered ==
    (decIn # <<>> /\ MatchesIn(protocol, decIn) = {}
                  /\ MatchesIn(protocol_remote, decIn) = {})
        => decOut = SpaceSeparated(decIn)

(***************************************************************************)
(* Properties of _encode.                                                  *)
(***************************************************************************)
\* The normalised key string house+unit+action of a request.
NormalisedKey(r) == upper(r[1]) \o r[2] \o upper(r[3])

\* C11: for every (house, unit, action) whose key the base table holds,
\* _decode of what _encode returned for it is the normalised key string.
RoundTrip ==
    (encOut # <<>> /\ decIn = encOut) => decOut = NormalisedKey(encIn)

SameButForCase(r, q) == \A i \in 1..3 : upper(r[i]) = upper(q[i])

\* C12: two calls of _encode whose arguments differ only in letter case return
\* the same byte sequence, or both fail.
EncodeIgnoresCase ==
    [][SameButForCase(encIn, encIn') => encOut' = encOut]_vars

(***************************************************************************)
(* Properties of send() over the life of a session.                        *)
(***************************************************************************)
CallerKey == NormalisedKey(caller.request)
SendStep == pc["sender"] = "idle" /\ <<caller, slog, sret>>' # <<caller, slog, sret>>

\* C13: a send() whose key is not in the base table returns False and leaves
\* paused, the queue and its count, initialised, both tables and the handle as
\* they were, reads no packet and writes nothing.
UnknownKeyChangesNothing ==
    [][(SendStep /\ NormalisedKey(caller'.request) \notin Keys(protocol))
          => /\ sret' = FALSE
             /\ pc'["sender"] = "idle"
             /\ slog'.wrote = "none"
             /\ UNCHANGED <<paused, heap, receivequeue, receivequeuecount,
                            initialised, protocol, protocol_remote, handle,
                            inbound, alive>>]_vars

UnknownKeyRefused ==
    /\ initialised /\ polling
    /\ CallerKey \notin Keys(protocol) \cup Keys(protocol_remote)
    /\ slog.called /\ ~slog.encoded
    /\ sret = FALSE

\* C14: a key that only the remote table holds does not encode, and the send()
\* for it has returned False without writing.
RemoteOnlyKeyIsNotSent ==
    CallerKey \in Keys(protocol_remote) \ Keys(protocol)
        => /\ _encode(protocol, caller.request[1], caller.request[2],
                      caller.request[3]) = <<>>
           /\ pc["sender"] = "idle"
           /\ sret = FALSE
           /\ ~slog.encoded /\ slog.wrote = "none"

RemoteOnlyKeyRefused ==
    /\ initialised
    /\ CallerKey \in Keys(protocol_remote) \ Keys(protocol)
    /\ slog.called
    /\ sret = FALSE

WritesOf(events) == Cardinality({i \in 1..Len(events) : events[i] = "write"})

\* C15: a send() calls interruptWrite at most once; one that has failed in
\* the write has returned after that one call.
SendWritesAtMostOnce ==
    /\ WritesOf(slog.events) <= 1
    /\ (pc["sender"] = "idle" /\ Failed) => (WritesOf(slog.events) = 1 /\ sret = FALSE)

SendFailedAfterOneWrite ==
    /\ pc["sender"] = "idle"
    /\ Failed
    /\ WritesOf(slog.events) = 1

\* C16: after a send() that failed because interruptWrite raised or wrote too
\* few bytes (and before any finish()), initialised is True, the handle is the
\* open handle and paused is False; and a later send() of the caller whose
\* write was accepted in full has returned True.
FailedSendLeavesSessionUsable ==
    /\ (pc["sender"] = "idle" /\ Failed /\ flog = NoFinishLog)
          => (initialised /\ handle = "open" /\ ~paused)
    /\ (pc["sender"] = "idle" /\ caller.failed /\ slog.wrote = "full")
          => sret = TRUE

SendSucceededAfterFailure ==
    /\ pc["sender"] = "idle"
    /\ polling
    /\ caller.failed
    /\ slog.wrote = "full"
    /\ sret = TRUE

(***************************************************************************)
(* Properties of construction and finish().                                *)
(***************************************************************************)
NothingRead == Len(inbound) = arrived
SendsRefused ==
    /\ pc["sender"] = "idle"
    /\ slog.called => (sret = FALSE /\ slog.wrote = "none" /\ ~slog.encoded)

\* C17: when no device was found or opening or claiming raised a USBError,
\* initialised is False, the thread is never started, and every send() has
\* returned False with no packet read and nothing written.
FailedOpenLeavesNoSession ==
    built \in {"nodevice", "openraises", "claimraises"}
        => /\ ~initialised
           /\ pc["poller"] = "unstarted"
           /\ SendsRefused
           /\ NothingRead

SendAfterFailedOpen ==
    /\ built = "claimraises"
    /\ polling
    /\ slog.called
    /\ arrived > 0

\* C18: when the protocol file was missing, initialised is False, every
\* send() has returned False with nothing written, and no receive() reads a
\* packet or appends to the queue.
MissingFileLeavesNoSession ==
    built = "nofile"
        => /\ ~initialised
           /\ SendsRefused
           /\ \A t \in Receivers : pc[t] \notin InReceive
           /\ NothingRead
           /\ appended = {} /\ heap[receivequeue] = <<>> /\ receivequeuecount = 0

PolledWithoutFile ==
    /\ built = "nofile"
    /\ alive /\ pc["poller"] = "while"
    /\ arrived > 0
    /\ slog.called

\* C19: once finish() has returned on a session whose thread was started, the
\* thread's run() loop eventually exits.
FinishStopsPoller ==
    (flog.finished /\ pc["poller"] # "unstarted") ~> (pc["poller"] = "done")

\* C20: finish() sets alive to False, then paused to True, then tries
\* releaseInterface, and ends with handle and device None, also when
\* releaseInterface has raised and when finish() had been called before.
FinishClosesSession ==
    /\ fpc = "paused" => flog.events = <<"alive">>
    /\ fpc = "release" => flog.events = <<"alive", "paused">>
    /\ fpc = "clear" => flog.events = <<"alive", "paused", "release">>
    /\ flog.finished
          => /\ fpc = "idle"
             /\ flog.events = <<"alive", "paused", "release", "clear">>
             /\ handle = "None" /\ device = "None"

FinishedTwiceWithRaise ==
    /\ flog.finished /\ flog.again /\ flog.raised
    /\ built = "ok"

Closed == flog.finished \/ flog.again

\* C21: once finish() has returned, no packet is read from the inbound
\* endpoint, nothing is appended to a queue list, interruptWrite accepts no
\* byte and no _write_bytes of a send() succeeds.
ClosedIsTerminal ==
    [][Closed => /\ inbound' = inbound \/ Len(inbound') > Len(inbound)
                 /\ appended' = appended
                 /\ \A r \in Cells : Len(heap'[r]) <= Len(heap[r])
                 /\ slog'.wrote # slog.wrote => slog'.wrote \in {"none", "raise"}
                 /\ pc["sender"] = "write" => sresult' = FALSE]_vars

(***************************************************************************)
(* Properties of getReceiveQueue() under concurrent callers.               *)
(***************************************************************************)
\* C22: when two callers run getReceiveQueue() concurrently, no command is
\* returned to both of them.
NoCommandReturnedTwice == foreground["first"].got \cap foreground["second"].got = {}

(***************************************************************************)
(* Properties of the poller thread and of receive().                       *)
(***************************************************************************)
\* C23: a cycle of run() that finds paused True calls no interruptRead and
\* appends nothing: the thread goes back to its sleep and its next test.
PausedCycleReadsNothing ==
    [][(pc["poller"] = "check" /\ pc'["poller"] # "check" /\ paused)
          => /\ pc'["poller"] = "while"
             /\ UNCHANGED <<inbound, heap, receivequeue, receivequeuecount,
                            appended>>]_vars

PollerFindsPaused ==
    /\ alive /\ initialised
    /\ pc["poller"] = "check"
    /\ paused
    /\ inbound # <<>>

InSend == pc["sender"] \in {"sleep", "write", "unpause"} \cup InReceive

\* C24: from send()'s "self.paused = True" to its "self.paused = False",
\* paused is True, also while another caller runs getReceiveQueue().
PausedThroughoutSend == (polling /\ InSend) => paused

\* C25: when no thread is inside receive() or getReceiveQueue(),
\* receivequeuecount is the length of receivequeue.
CountIsLength ==
    (AtRest /\ pc["drainer"] = "idle")
        => receivequeuecount = Len(heap[receivequeue])

\* C26: the commands in receivequeue are in the order in which their packets
\* were read from the inbound endpoint.
QueueInReadOrder ==
    LET queue == heap[receivequeue]
    IN \A i, j \in 1..Len(queue) : i < j => queue[i].n < queue[j].n

\* C27: a receive() whose interruptRead raised or returned nothing returns to
\* its caller and leaves receivequeue and receivequeuecount as they were; the
\* poller thread goes on to its next cycle.
EmptyReadChangesNothing ==
    [][\A t \in Receivers :
          (pc[t] = "read" /\ pc'[t] # "read" /\ inbound' = inbound)
              => /\ pc'[t] = AfterReceive(t)
                 /\ UNCHANGED <<heap, receivequeue, receivequeuecount, appended,
                                alive>>]_vars

FlushReadNothing ==
    /\ initialised
    /\ pc["sender"] = "write"
    /\ flushed = {}
    /\ inbound # <<>>
    /\ pc["poller"] = "while" /\ alive

(***************************************************************************)
(* Properties of what is decoded and queued.                               *)
(***************************************************************************)
\* C28: _decode has returned the name of a table entry only if the bytes
\* decoded are, element for element, the byte list of the entry of that name.
NameOnlyForEqualBytes ==
    decOut \in Keys(protocol) \cup Keys(protocol_remote)
        => decOut \in MatchesIn(protocol, decIn) \cup MatchesIn(protocol_remote, decIn)

\* C29: every element of a queue list is a non-empty string: a key of the
\* base or of the remote table, or the space-separated decimal rendering of
\* the bytes received, also when one of the two tables is empty.
QueuedItemsAreCommands ==
    \A item \in UNION {{heap[r][i] : i \in 1..Len(heap[r])} : r \in Cells} :
        /\ item.c # <<>>
        /\ \/ item.c \in Keys(protocol) \cup Keys(protocol_remote)
           \/ item.c = SpaceSeparated(item.bytes)

(***************************************************************************)
(* Properties of construction.                                             *)
(***************************************************************************)
\* C30: construction starts the thread and writes the remote-initialisation
\* sequences only if the session is initialised; when the protocol file was
\* missing, nothing is written and no thread is started.
ConstructionNeedsInitialised ==
    /\ pc["poller"] # "unstarted" => initialised
    /\ \A t \in SessionTables :
          LET self == __init__(built, polling, t)
          IN /\ (self.started \/ self.remotes # <<>>) => self.initialised
             /\ built = "nofile" => (~self.started /\ self.remotes = <<>>)

(***************************************************************************)
(* What the operations of a session leave alone.                           *)
(***************************************************************************)
\* C31: no step of the poller thread, in run() or in the receive() it calls,
\* writes paused: a step that changes paused is a step of send(), of
\* getReceiveQueue() or of finish().
PollerNeverWritesPaused ==
    [][paused' # paused
          => /\ pc'["poller"] = pc["poller"]
             /\ \/ pc'["sender"] # pc["sender"]
                \/ pc'["drainer"] # pc["drainer"]
                \/ fpc' # fpc]_vars

PollerQueuedWhilePaused ==
    /\ alive
    /\ pc["poller"] = "while"
    /\ appended \ flushed # {}
    /\ paused
    /\ pc["sender"] = "sleep"

\* C32: once construction has finished, no step of send(), receive(),
\* getReceiveQueue(), finish() or the poller loop changes the base table or
\* the remote table.
TablesAreReadOnly == [][UNCHANGED <<protocol, protocol_remote>>]_vars

TablesKeptToTheEnd ==
    /\ protocol # <<>> /\ protocol_remote # <<>>
    /\ flog.finished
    /\ slog.encoded
    /\ appended # {}
    /\ returned # {}

(***************************************************************************)
(* Properties of _load_protocol.                                           *)
(***************************************************************************)
IsDataLine(line) == strip(line) # <<>> /\ strip(line)[1] \notin {"#", "["}
IsHeaderLine(line) == strip(line) # <<>> /\ strip(line)[1] = "["

\* The header in force at line i of a file: the last header line above it.
HeaderAbove(file, i) ==
    LET above == {j \in 1..(i - 1) : IsHeaderLine(file[j])}
    IN IF above = {} THEN <<>>
       ELSE strip(file[CHOOSE j \in above : \A k \in above : k <= j])

\* C33: a line read changes the base table only if it is a data line under
\* the header [CM19A X10 CODES], and the remote table only if it is a data
\* line under [X10 RF REMOTE DIM/BRIGHT CODES]; blank lines, comments, data
\* lines under another header and data lines above the first header change
\* neither table.
SectionsSelectTables ==
    [][LET line == loading.file[loading.at]
           header == HeaderAbove(loading.file, loading.at)
       IN /\ protocol' # protocol => (IsDataLine(line) /\ header = CodesHeader)
          /\ protocol_remote' # protocol_remote
                => (IsDataLine(line) /\ header = RemoteHeader)]_vars

LoadedPastStrayData ==
    /\ loading.state = "closed"
    /\ Len(loading.file) = 3
    /\ IsDataLine(loading.file[1])
    /\ loading.file[2] = CodesHeader
    /\ Len(protocol) = 1 /\ protocol_remote = <<>>

\* A token no notation of a hexadecimal number allows.
NotHexadecimal(token) ==
    \E i \in 1..Len(token) : ~IsHexDigit(upper(token)[i]) /\ token[i] \notin {"x", "X", "+", "-"}

\* A data line under one of the two known headers with such a token in its
\* byte list.
BadLineAt(file, i) ==
    /\ IsDataLine(file[i])
    /\ HeaderAbove(file, i) \in {CodesHeader, RemoteHeader}
    /\ LET fields == split(Unspaced(strip(file[i])), 3)
       IN /\ Len(fields) = 4
          /\ \E t \in {split(fields[4], Len(fields[4]))[k] :
                          k \in 1..Len(split(fields[4], Len(fields[4])))} :
                NotHexadecimal(t)

\* C34: when a data line of a known section holds a token that is not
\* hexadecimal, the load fails: no session comes of that file, so that no
\* send() encodes with and no receive() decodes with the entries read before
\* the bad line.
BadTokenFailsLoad ==
    (\E i \in 1..Len(loading.file) : BadLineAt(loading.file, i))
        => /\ built # "ok" /\ loading.state # "closed"
           /\ loading.at > Len(loading.file) => loading.state = "raised"
           /\ ~slog.called /\ pc["sender"] = "idle"
           /\ arrived = 0 /\ appended = {}

FailedOnBadToken ==
    /\ loading.state = "raised"
    /\ built = "raised"
    /\ BadLineAt(loading.file, loading.at)
    /\ protocol # <<>>

=============================================================================
